---------------------------- MODULE Spec2Model ----------------------------
(***************************************************************************)
(* A model of PixelFlex, the browser-side batch image converter.           *)
(*                                                                         *)
(*   services/imageProcessor  traceToSvgPath, minifySvg, convertImage      *)
(*   App                      the image queue and processImages            *)
(*                                                                         *)
(* Strings are TLA+ strings (TLC evaluates Len, SubSeq and \o on them), so *)
(* the markup the converter builds is modelled character by character.     *)
(* Sizes that the code computes as img.width * scale are kept in halves    *)
(* (width2 = 2 * width): the scale stops 0.5, 1, 1.5 and 2 of the slider   *)
(* are exact in binary floating point, so the arithmetic of the model is   *)
(* the arithmetic of the code.                                             *)
(***************************************************************************)
EXTENDS Integers, Sequences, FiniteSets, TLC

VARIABLES
    trace,         \* one call of traceToSvgPath: its arguments, position, result
    mini,          \* one document put through minifySvg, once and again
    conv,          \* the convertImage call in progress, or the arguments of one to make
    service,       \* which copy of the service the application imports
    encoders,      \* the types the browser's canvas encodes to
    images,        \* App: the queue, a sequence of ImageFile
    mode,          \* App: AppMode
    settings,      \* App: GlobalSettings
    isProcessing,  \* App: the flag that disables the run button
    run,           \* App: the processImages invocation in progress
    revoked,       \* the object URLs revoked so far
    uploads,       \* the number of files uploaded so far
    runs,          \* the number of batch runs started so far
    changes,       \* the number of changes made in the settings panel so far
    log,           \* the last batch run: what it started from, the calls it has made
    store,         \* the blob URL store: the blobs behind the result URLs
    isZipping,     \* App: the flag that disables the export buttons
    zip            \* App: the downloadAsZip invocation in progress

appVars == <<service, encoders, images, mode, settings, isProcessing, run, revoked, uploads, runs,
            changes, log, store, isZipping, zip>>

zipVars == <<isZipping, zip>>

vars == <<trace, mini, conv, appVars>>

(***************************************************************************)
(* Bounds of the model.                                                    *)
(***************************************************************************)
MaxTracePixels == 4    \* canvases of up to this many pixels are enumerated pixel by pixel
MaxUniformDim == 4     \* single-colour canvases go up to this width and height
MaxMinifyTokens == 5   \* documents given to minifySvg are made of up to this many tokens
MaxFileDim == 3        \* small pictures given to convertImage go up to this width and height
MaxUploads == 2        \* files uploaded in one behaviour of the application
MaxRuns == 2           \* batch runs started in one behaviour of the application
MaxChanges == 1        \* changes made in the settings panel, away from what the mode has set

(***************************************************************************)
(* Basic helpers.                                                          *)
(***************************************************************************)
Min(S) == CHOOSE m \in S : \A n \in S : m <= n

Max(S) == CHOOSE m \in S : \A n \in S : m >= n

CharAt(s, i) == SubSeq(s, i, i)

\* ToString on a number held in halves, as a JS template literal prints it.
NumStr(n2) == IF n2 % 2 = 0 THEN ToString(n2 \div 2) ELSE ToString(n2 \div 2) \o ".5"

\* WebIDL's conversion of a number to long / unsigned long: the fraction is dropped.
Trunc(n2) == n2 \div 2

\* The first index >= from at which pat occurs in s, 0 when there is none.
IndexOf(s, pat, from) ==
    LET hits == {j \in from..(Len(s) - Len(pat) + 1) : SubSeq(s, j, j + Len(pat) - 1) = pat}
    IN  IF hits = {} THEN 0 ELSE Min(hits)

\* The number of places at which pat occurs in s.
Occurrences(s, pat) ==
    Cardinality({j \in 1..(Len(s) - Len(pat) + 1) : SubSeq(s, j, j + Len(pat) - 1) = pat})

(***************************************************************************)
(* Pixels and canvases.  A canvas bitmap is w x h pixels: px gives the     *)
(* pixels that differ from base, by row-major pixel index.                 *)
(***************************************************************************)
\* What reading an index outside a typed array gives (undefined): a value that
\* is no channel byte and that `> 128` is false for.
Undefined == -1

\* ${v} in a template literal.
ChannelStr(v) == IF v = Undefined THEN "undefined" ELSE ToString(v)

Pixel(r, g, b, a) == [r |-> r, g |-> g, b |-> b, a |-> a]

TransparentBlack == Pixel(0, 0, 0, 0)

OpaqueRed == Pixel(255, 0, 0, 255)

\* The pixel values bitmaps are drawn from: the two scenario colours and the
\* two alpha values around the opacity threshold, with distinct channels.
Palette == {OpaqueRed, TransparentBlack, Pixel(10, 20, 30, 129), Pixel(40, 50, 60, 128)}

Bitmap(w, h, base, px) == [w |-> w, h |-> h, base |-> base, px |-> px]

CanvasPixel(canvas, x, y) ==
    IF x < canvas.w /\ y < canvas.h
    THEN LET k == y * canvas.w + x
         IN  IF k \in DOMAIN canvas.px THEN canvas.px[k] ELSE canvas.base
    ELSE TransparentBlack

\* ctx.getImageData(0, 0, sw, sh): sw and sh are converted to long; a zero
\* width or height throws IndexSizeError.
GetImageDataThrows(sw2, sh2) == Trunc(sw2) = 0 \/ Trunc(sh2) = 0

getImageData(canvas, sw2, sh2) == [w |-> Trunc(sw2), h |-> Trunc(sh2), canvas |-> canvas]

\* imgData.data[i]: the Uint8ClampedArray holds w * h * 4 channel bytes, and
\* an index outside it reads undefined.
DataAt(imgData, i) ==
    IF i < 0 \/ i >= imgData.w * imgData.h * 4
    THEN Undefined
    ELSE LET k == i \div 4
             p == CanvasPixel(imgData.canvas, k % imgData.w, k \div imgData.w)
         IN  CASE i % 4 = 0 -> p.r
               [] i % 4 = 1 -> p.g
               [] i % 4 = 2 -> p.b
               [] OTHER     -> p.a

(***************************************************************************)
(* traceToSvgPath                                                          *)
(***************************************************************************)
step == 2

OpacityThreshold == 128

\* `<rect x="${x}" y="${y}" width="${step}" height="${step}" fill="${color}" />`
RectMarkup(x, y, r, g, b) ==
    "<rect x=\"" \o ToString(x) \o "\" y=\"" \o ToString(y)
      \o "\" width=\"" \o ToString(step) \o "\" height=\"" \o ToString(step)
      \o "\" fill=\"rgb(" \o ChannelStr(r) \o "," \o ChannelStr(g) \o "," \o ChannelStr(b) \o ")\" />"

\* The number of iterations of `for (v = 0; v < limit; v += step)`.
\* v takes the multiples of step below limit: ceil(limit / step) of them.
LoopCount(limit2) == (limit2 + 2 * step - 1) \div (2 * step)

\* The x and y of iteration k (from 0) of the nested loops: y outer, x inner.
SampleAtColumnMajor(k, width2, height2) ==
    [x |-> step * (k \div LoopCount(height2)), y |-> step * (k % LoopCount(height2))]

SampleAt(k, width2, height2) ==
    [x |-> step * (k % LoopCount(width2)), y |-> step * (k \div LoopCount(width2))]

\* The body of the inner loop: what one iteration appends to paths.
\* i = (y * width + x) * 4 with the width argument, whatever the width of imgData.
TraceCell(imgData, width2, x, y) ==
    LET i == ((y * width2) \div 2 + x) * 4
        r == DataAt(imgData, i)
        g == DataAt(imgData, i + 1)
        b == DataAt(imgData, i + 2)
        a == DataAt(imgData, i + 3)
    IN  IF a > OpacityThreshold THEN RectMarkup(x, y, r, g, b) ELSE ""

\* paths after iterations lo..hi of the loops, in iteration order.
RECURSIVE TraceCells(_, _, _, _, _)
TraceCells(imgData, width2, height2, lo, hi) ==
    IF lo > hi THEN ""
    ELSE IF lo = hi
         THEN LET s == SampleAt(lo, width2, height2)
              IN  TraceCell(imgData, width2, s.x, s.y)
         ELSE LET mid == (lo + hi) \div 2
              IN  TraceCells(imgData, width2, height2, lo, mid)
                    \o TraceCells(imgData, width2, height2, mid + 1, hi)

traceToSvgPath(canvas, width2, height2) ==
    LET imgData == getImageData(canvas, width2, height2)
    IN  TraceCells(imgData, width2, height2, 0, LoopCount(width2) * LoopCount(height2) - 1)

(***************************************************************************)
(* minifySvg                                                               *)
(***************************************************************************)
\* The characters \s matches and trim() removes, as far as documents here
\* hold them.
IsSpace(c) == c \in {" ", "\n", "\t"}

\* The end of the longest run of whitespace that starts at index i
\* (i - 1 when s[i] is no whitespace).
SpaceRunEnd(s, i) ==
    Min({q \in i..(Len(s) + 1) : q = Len(s) + 1 \/ ~IsSpace(CharAt(s, q))}) - 1

\* .replace(/<!--[\s\S]*?-->/g, ""): from index i on, each leftmost "<!--" is
\* removed up to the first "-->" after it; the scan goes on behind the match
\* and never looks again at what it has produced.
RECURSIVE StripComments(_, _)
StripComments(s, i) ==
    LET open == IndexOf(s, "<!--", i)
        close == IF open = 0 THEN 0 ELSE IndexOf(s, "-->", open + 4)
    IN  IF close = 0
        THEN SubSeq(s, i, Len(s))
        ELSE SubSeq(s, i, open - 1) \o StripComments(s, close + 3)

\* .replace(/>\s+</g, "><"): each ">" followed by whitespace and then "<".
RECURSIVE CollapseTagGaps(_, _)
CollapseTagGaps(s, i) ==
    LET gaps == {j \in i..Len(s) :
                    /\ CharAt(s, j) = ">"
                    /\ SpaceRunEnd(s, j + 1) > j
                    /\ SpaceRunEnd(s, j + 1) < Len(s)
                    /\ CharAt(s, SpaceRunEnd(s, j + 1) + 1) = "<"}
    IN  IF gaps = {}
        THEN SubSeq(s, i, Len(s))
        ELSE LET j == Min(gaps)
             IN  SubSeq(s, i, j - 1) \o "><" \o CollapseTagGaps(s, SpaceRunEnd(s, j + 1) + 2)

\* .trim()
TrimNothing(s) == s

Trim(s) ==
    LET solid == {j \in 1..Len(s) : ~IsSpace(CharAt(s, j))}
    IN  IF solid = {} THEN "" ELSE SubSeq(s, Min(solid), Max(solid))

minifySvg(svgString) == Trim(CollapseTagGaps(StripComments(svgString, 1), 1))

(***************************************************************************)
(* The documents minifySvg is applied to, once and then to its own output. *)
(***************************************************************************)
MinifyTokens == {"<!--", "-->", "<!", "--", " ", "\n", "<a>", "x"}

RECURSIVE Documents(_)
Documents(n) ==
    IF n = 0 THEN {""}
    ELSE LET shorter == Documents(n - 1)
         IN  shorter \cup {d \o t : d \in shorter, t \in MinifyTokens}

(***************************************************************************)
(* convertImage.  The repository holds two copies of the service, which    *)
(* differ in the tracing cutoff and in the layout of the markup templates. *)
(***************************************************************************)
PNG == "image/png"

JPEG == "image/jpeg"

WEBP == "image/webp"

GIF == "image/gif"

SVG == "image/svg+xml"

ImageFormat == {PNG, JPEG, WEBP, GIF, SVG}

Variants == {"part_001", "part_000"}

\* The types a browser's canvas encodes to: PNG always, JPEG everywhere, WebP
\* in most browsers, GIF and SVG in none.
Browsers == {{PNG, JPEG, WEBP}, {PNG, JPEG}}

TraceCutoff001 == 150000

TraceCutoff000 == 200000

TraceCutoff(variant) == IF variant = "part_001" THEN TraceCutoff001 ELSE TraceCutoff000

\* `useTracing = width * height < cutoff`, on sizes held in halves.
UseTracingOrEqual(width2, height2, variant) == width2 * height2 <= 4 * TraceCutoff(variant)

UseTracing(width2, height2, variant) == width2 * height2 < 4 * TraceCutoff(variant)

\* The tracing template without its group element.
TraceEnvelopeNoGroup(variant, width2, height2, paths) ==
    "<svg xmlns=\"http://www.w3.org/2000/svg\" width=\"" \o NumStr(width2) \o "\" height=\"" \o NumStr(height2)
       \o "\">" \o paths \o "</svg>"

\* The template of the tracing strategy.
TraceEnvelope(variant, width2, height2, paths) ==
    IF variant = "part_001"
    THEN "<svg xmlns=\"http://www.w3.org/2000/svg\" width=\"" \o NumStr(width2) \o "\" height=\"" \o NumStr(height2)
           \o "\" viewBox=\"0 0 " \o NumStr(width2) \o " " \o NumStr(height2)
           \o "\"><g shape-rendering=\"crispEdges\">" \o paths \o "</g></svg>"
    ELSE "\n              " \o "<svg xmlns=\"http://www.w3.org/2000/svg\" width=\"" \o NumStr(width2) \o "\" height=\"" \o NumStr(height2)
           \o "\" viewBox=\"0 0 " \o NumStr(width2) \o " " \o NumStr(height2) \o "\">"
           \o "\n                " \o "<g shape-rendering=\"crispEdges\">" \o paths \o "</g>"
           \o "\n              " \o "</svg>"

\* The template of the embedding strategy.
EmbedEnvelope(variant, width2, height2, dataUrl) ==
    IF variant = "part_001"
    THEN "<svg xmlns=\"http://www.w3.org/2000/svg\" xmlns:xlink=\"http://www.w3.org/1999/xlink\" width=\"" \o NumStr(width2) \o "\" height=\"" \o NumStr(height2)
           \o "\"><image width=\"100%\" height=\"100%\" xlink:href=\"" \o dataUrl \o "\" /></svg>"
    ELSE "\n              " \o "<svg xmlns=\"http://www.w3.org/2000/svg\" xmlns:xlink=\"http://www.w3.org/1999/xlink\" width=\"" \o NumStr(width2) \o "\" height=\"" \o NumStr(height2) \o "\">"
           \o "\n                " \o "<image width=\"100%\" height=\"100%\" xlink:href=\"" \o dataUrl \o "\" />"
           \o "\n              " \o "</svg>"

\* canvas.toDataURL('image/webp', quality): a data URL of the encoded canvas,
\* PNG where the browser has no WebP encoder, "data:," for a canvas without
\* pixels.  The encoded bytes are the platform's; a stand-in is kept.
ToDataURL(canvas, webpEncoder) ==
    IF canvas.w * canvas.h = 0 THEN "data:,"
    ELSE IF webpEncoder THEN "data:image/webp;base64,UklGRhYAAABXRUJQ"
         ELSE "data:image/png;base64,iVBORw0KGgo="

\* The files given to convertImage.  A File has a type and, once read, either
\* text (an SVG document) or a picture the image element decodes to pixels.
File(name, type, readable, decodable, text, width, height, base, px) ==
    [name |-> name, type |-> type, readable |-> readable, decodable |-> decodable,
     text |-> text, width |-> width, height |-> height, base |-> base, px |-> px]

NoBlob == [type |-> "none"]

SvgBlob(text) == [type |-> SVG, kind |-> "markup", text |-> text, size |-> Len(text)]

\* What canvas.toBlob hands to its callback when the encoding succeeds.  The
\* encoded bytes are the platform's: the blob keeps what was encoded and how,
\* and a stand-in for its size.  A type the canvas does not encode to gives a
\* PNG, as toBlob and toDataURL are specified.
EncodedType(format, supported) == IF format \in supported THEN format ELSE PNG

RasterBlob(canvas, format, quality) ==
    [type |-> format, kind |-> "raster", w |-> canvas.w, h |-> canvas.h, quality |-> quality,
     size |-> 1 + (canvas.w * canvas.h * quality) \div 100]

NoCall == [phase |-> "none", outcome |-> "none"]

NoUrl == <<>>

NoCanvas == [w |-> 0, h |-> 0, none |-> TRUE]

\* What toBlob was asked for: nothing yet, or a type and a quality.
NoRequest == [type |-> "none", quality |-> 0]

\* canvas.width = width; canvas.height = height; the optional white fill;
\* ctx.drawImage(img, 0, 0, width, height).  A picture drawn at its own size
\* keeps its pixels and a single-colour picture stays single-coloured at any
\* size.
Flatten(p) ==
    Pixel((p.r * p.a + 255 * (255 - p.a)) \div 255, (p.g * p.a + 255 * (255 - p.a)) \div 255,
          (p.b * p.a + 255 * (255 - p.a)) \div 255, 255)

DrawnCanvas(file, width2, height2, backdrop) ==
    LET w == Trunc(width2)
        h == Trunc(height2)
        same == w = file.width /\ h = file.height
        px == IF same THEN file.px ELSE <<>>
    IN  IF backdrop
        THEN Bitmap(w, h, Flatten(file.base), [k \in DOMAIN px |-> Flatten(px[k])])
        ELSE Bitmap(w, h, file.base, px)

\* resolve and reject of the promise: only the first call settles it.
Resolve(c, blob) ==
    [c EXCEPT !.resolveCalls = @ + 1,
              !.outcome = IF c.outcome = "pending" THEN "resolved" ELSE @,
              !.blob = IF c.outcome = "pending" THEN blob ELSE @]

Reject(c, message) ==
    [c EXCEPT !.rejectCalls = @ + 1,
              !.outcome = IF c.outcome = "pending" THEN "rejected" ELSE @,
              !.error = IF c.outcome = "pending" THEN message ELSE @]

\* new Blob([...]) and URL.createObjectURL(blob), counted per call.
NewBlob(c) == [c EXCEPT !.blobs = @ + 1]

CreateObjectURL(c) == [c EXCEPT !.urls = @ + 1, !.url = <<"blob", c.id>>]

\* The executor of the promise convertImage returns: it only starts a read.
convertImage(id, file, targetFormat, quality, scale2, variant) ==
    [id |-> id, url |-> NoUrl,
     phase |-> IF file.type = SVG /\ targetFormat = SVG THEN "readAsText" ELSE "readAsDataURL",
     file |-> file, targetFormat |-> targetFormat, quality |-> quality, scale2 |-> scale2,
     variant |-> variant,
     outcome |-> "pending", blob |-> NoBlob, error |-> "",
     resolveCalls |-> 0, rejectCalls |-> 0, blobs |-> 0, urls |-> 0,
     readers |-> 1, elements |-> 0, canvases |-> 0, traces |-> 0, encodes |-> 0,
     strategy |-> "none", backdrop |-> FALSE, canvas |-> NoCanvas,
     width2 |-> 0, height2 |-> 0, inputFailed |-> FALSE,
     svgContent |-> "", request |-> NoRequest]

\* reader.onload of the pass-through branch.
TextLoadedNoMinify(c) ==
    [Resolve(CreateObjectURL(NewBlob(c)), SvgBlob(c.file.text))
        EXCEPT !.phase = "settled", !.strategy = "passthrough"]

TextLoaded(c) ==
    [Resolve(CreateObjectURL(NewBlob(c)), SvgBlob(minifySvg(c.file.text)))
        EXCEPT !.phase = "settled", !.strategy = "passthrough"]

\* reader.onload of the other branch: new Image(), img.onload = ..., img.src = ...
DataURLLoaded(c) == [c EXCEPT !.phase = "decoding", !.elements = @ + 1]

\* The read fails, or the picture does not decode: the FileReader or the image
\* element fires its error event, for which no handler is registered.
InputFailed(c) == [c EXCEPT !.phase = "stalled", !.inputFailed = TRUE]

\* The messages of the two rejections, which differ between the copies.
ContextMessage(variant) ==
    IF variant = "part_001" THEN "Canvas context failure" ELSE "Canvas context failed"

BlobMessage(variant) ==
    IF variant = "part_001" THEN "Blob generation failed" ELSE "Export failed"

\* img.onload when getContext('2d') returns null: reject and return.
NoContextNoReturn(c) ==
    [Reject([c EXCEPT !.canvases = @ + 1], ContextMessage(c.variant))
        EXCEPT !.phase = "encoding", !.strategy = "raster", !.encodes = @ + 1]

NoContext(c) ==
    [Reject([c EXCEPT !.canvases = @ + 1], ContextMessage(c.variant)) EXCEPT !.phase = "settled"]

\* img.onload with a context, up to and including drawImage.
DrawnNoBackdrop(c) ==
    LET width2 == c.file.width * c.scale2
        height2 == c.file.height * c.scale2
    IN  [c EXCEPT !.canvases = @ + 1, !.width2 = width2, !.height2 = height2,
                  !.backdrop = FALSE,
                  !.canvas = DrawnCanvas(c.file, width2, height2, FALSE)]

Drawn(c) ==
    LET width2 == c.file.width * c.scale2
        height2 == c.file.height * c.scale2
        backdrop == c.targetFormat = JPEG
    IN  [c EXCEPT !.canvases = @ + 1, !.width2 = width2, !.height2 = height2,
                  !.backdrop = backdrop,
                  !.canvas = DrawnCanvas(c.file, width2, height2, backdrop)]

\* The rest of img.onload for the SVG target.  getImageData throwing leaves
\* the handler by an exception nothing catches.
SvgBranch(d, webpEncoder) ==
    IF UseTracing(d.width2, d.height2, d.variant)
    THEN IF GetImageDataThrows(d.width2, d.height2)
         THEN [d EXCEPT !.phase = "stalled", !.strategy = "trace", !.traces = @ + 1]
         ELSE LET svgContent == TraceEnvelope(d.variant, d.width2, d.height2,
                                              traceToSvgPath(d.canvas, d.width2, d.height2))
              IN  [Resolve(CreateObjectURL(NewBlob([d EXCEPT !.strategy = "trace", !.traces = @ + 1,
                                                             !.svgContent = svgContent])),
                           SvgBlob(minifySvg(svgContent)))
                      EXCEPT !.phase = "settled"]
    ELSE LET svgContent == EmbedEnvelope(d.variant, d.width2, d.height2,
                                         ToDataURL(d.canvas, webpEncoder))
         IN  [Resolve(CreateObjectURL(NewBlob([d EXCEPT !.strategy = "embed", !.encodes = @ + 1,
                                                        !.svgContent = svgContent])),
                      SvgBlob(minifySvg(svgContent)))
                 EXCEPT !.phase = "settled"]

\* The rest of img.onload for the other targets: canvas.toBlob(callback, ...).
RasterBranch(d) ==
    [d EXCEPT !.phase = "encoding", !.strategy = "raster", !.encodes = @ + 1,
              !.request = [type |-> d.targetFormat, quality |-> d.quality]]

ImageLoaded(c, webpEncoder) ==
    IF c.targetFormat = SVG THEN SvgBranch(Drawn(c), webpEncoder) ELSE RasterBranch(Drawn(c))

\* The callback of canvas.toBlob, with the blob or with null.
ToBlobDone(c, blob) ==
    IF blob # NoBlob
    THEN [Resolve(CreateObjectURL(NewBlob(c)), blob) EXCEPT !.phase = "settled"]
    ELSE [Reject(c, BlobMessage(c.variant)) EXCEPT !.phase = "settled"]

\* What toBlob can deliver: null for a canvas without pixels, otherwise the
\* encoded picture, or null when the encoder gives up.
ToBlobResults(c, supported) ==
    IF c.canvas.w * c.canvas.h = 0 THEN {NoBlob}
    ELSE {NoBlob, RasterBlob(c.canvas, EncodedType(c.request.type, supported), c.request.quality)}

(***************************************************************************)
(* App: the state after the first render.                                  *)
(***************************************************************************)
\* quality is kept in percent and scale in halves.
DefaultSettings == [targetFormat |-> WEBP, quality |-> 80, scale2 |-> 2]

NoRun == [pc |-> "idle"]

NoLog == [no |-> 0]

NoZip == [pc |-> "idle"]

AppIdle ==
    /\ images = <<>>
    /\ mode = "convert"
    /\ settings = DefaultSettings
    /\ isProcessing = FALSE
    /\ run = NoRun
    /\ revoked = {}
    /\ uploads = 0
    /\ runs = 0
    /\ changes = 0
    /\ log = NoLog
    /\ store = <<>>
    /\ isZipping = FALSE
    /\ zip = NoZip

(***************************************************************************)
(* The calls of traceToSvgPath: the canvas is the one convertImage made,   *)
(* canvas.width = width and canvas.height = height (as unsigned long).     *)
(***************************************************************************)
TraceDims2 == 1..(2 * MaxTracePixels + 1)

EnumeratedCanvases(w, h) ==
    IF w * h = 0 THEN {Bitmap(w, h, TransparentBlack, <<>>)}
    ELSE {Bitmap(w, h, TransparentBlack, px) : px \in [0..(w * h - 1) -> Palette]}

UniformCanvases(w, h) == {Bitmap(w, h, p, <<>>) : p \in Palette}

TraceCalls ==
    LET small == {wh \in TraceDims2 \X TraceDims2 : Trunc(wh[1]) * Trunc(wh[2]) <= MaxTracePixels}
        big == (1..(2 * MaxUniformDim + 1)) \X (1..(2 * MaxUniformDim + 1))
    IN  UNION {{[ctx |-> c, width2 |-> wh[1], height2 |-> wh[2]]
                   : c \in EnumeratedCanvases(Trunc(wh[1]), Trunc(wh[2]))} : wh \in small}
        \cup
        UNION {{[ctx |-> c, width2 |-> wh[1], height2 |-> wh[2]]
                   : c \in UniformCanvases(Trunc(wh[1]), Trunc(wh[2]))} : wh \in big}

NoTrace == [pc |-> "none"]

NoMini == [pc |-> "none"]

TraceInit ==
    /\ trace \in {[pc |-> "call", ctx |-> c.ctx, given |-> c.ctx, width2 |-> c.width2,
                   height2 |-> c.height2, paths |-> "", again |-> ""] : c \in TraceCalls}
    /\ mini = NoMini
    /\ conv = NoCall
    /\ service = "part_001"
    /\ encoders = {PNG, JPEG, WEBP}
    /\ AppIdle

\* A tracer that blanks the bitmap it has read.
TraceReturnErasing ==
    /\ trace.pc = "call"
    /\ ~GetImageDataThrows(trace.width2, trace.height2)
    /\ trace' = [trace EXCEPT !.pc = "returned",
                              !.paths = traceToSvgPath(trace.ctx, trace.width2, trace.height2),
                              !.ctx = Bitmap(trace.ctx.w, trace.ctx.h, TransparentBlack, <<>>)]
    /\ UNCHANGED <<mini, conv, appVars>>

TraceReturn ==
    /\ trace.pc = "call"
    /\ ~GetImageDataThrows(trace.width2, trace.height2)
    /\ trace' = [trace EXCEPT !.pc = "returned",
                              !.paths = traceToSvgPath(trace.ctx, trace.width2, trace.height2)]
    /\ UNCHANGED <<mini, conv, appVars>>

TraceThrow ==
    /\ trace.pc = "call"
    /\ GetImageDataThrows(trace.width2, trace.height2)
    /\ trace' = [trace EXCEPT !.pc = "thrown"]
    /\ UNCHANGED <<mini, conv, appVars>>

\* A second call on the same context with the same width and height.
TraceAgain ==
    /\ trace.pc = "returned"
    /\ trace' = [trace EXCEPT !.pc = "again",
                              !.again = traceToSvgPath(trace.ctx, trace.width2, trace.height2)]
    /\ UNCHANGED <<mini, conv, appVars>>

TraceNext == TraceReturn \/ TraceThrow \/ TraceAgain

SpecTrace == TraceInit /\ [][TraceNext]_vars

MinifyInit ==
    /\ mini \in {[pc |-> "input", input |-> d, once |-> "", twice |-> ""]
                    : d \in Documents(MaxMinifyTokens)}
    /\ trace = NoTrace
    /\ conv = NoCall
    /\ service = "part_001"
    /\ encoders = {PNG, JPEG, WEBP}
    /\ AppIdle

MinifyOnce ==
    /\ mini.pc = "input"
    /\ mini' = [mini EXCEPT !.pc = "once", !.once = minifySvg(mini.input)]
    /\ UNCHANGED <<trace, conv, appVars>>

MinifyAgain ==
    /\ mini.pc = "once"
    /\ mini' = [mini EXCEPT !.pc = "twice", !.twice = minifySvg(mini.once)]
    /\ UNCHANGED <<trace, conv, appVars>>

MinifyNext == MinifyOnce \/ MinifyAgain

SpecMinify == MinifyInit /\ [][MinifyNext]_vars

(***************************************************************************)
(* The events of the platform that drive the convertImage call in conv.    *)
(***************************************************************************)
ReaderOnloadText ==
    /\ conv.phase = "readAsText"
    /\ conv.file.readable
    /\ conv' = TextLoaded(conv)
    /\ UNCHANGED <<trace, mini, appVars>>

ReaderOnloadDataURL ==
    /\ conv.phase = "readAsDataURL"
    /\ conv.file.readable
    /\ conv' = DataURLLoaded(conv)
    /\ UNCHANGED <<trace, mini, appVars>>

ReaderOnerror ==
    /\ conv.phase \in {"readAsText", "readAsDataURL"}
    /\ ~conv.file.readable
    /\ conv' = InputFailed(conv)
    /\ UNCHANGED <<trace, mini, appVars>>

ImgOnload ==
    /\ conv.phase = "decoding"
    /\ conv.file.decodable
    /\ \E context \in BOOLEAN :
          conv' = IF context THEN ImageLoaded(conv, WEBP \in encoders) ELSE NoContext(conv)
    /\ UNCHANGED <<trace, mini, appVars>>

ImgOnerror ==
    /\ conv.phase = "decoding"
    /\ ~conv.file.decodable
    /\ conv' = InputFailed(conv)
    /\ UNCHANGED <<trace, mini, appVars>>

ToBlobCallback ==
    /\ conv.phase = "encoding"
    /\ \E blob \in ToBlobResults(conv, encoders) : conv' = ToBlobDone(conv, blob)
    /\ UNCHANGED <<trace, mini, appVars>>

PlatformEvent ==
    \/ ReaderOnloadText
    \/ ReaderOnloadDataURL
    \/ ReaderOnerror
    \/ ImgOnload
    \/ ImgOnerror
    \/ ToBlobCallback

(***************************************************************************)
(* One call of convertImage on its own: the arguments it is given.         *)
(***************************************************************************)
Qualities == {60, 80}

Scales2 == 1..4

Checker(w, h) == [k \in 0..(w * h - 1) |-> IF k % 2 = 0 THEN OpaqueRed ELSE Pixel(10, 20, 30, 129)]

Stripes(w, h) == [k \in 0..(w * h - 1) |-> IF k % 3 = 0 THEN TransparentBlack ELSE Pixel(40, 50, 60, 128)]

SvgTexts ==
    {"<svg xmlns=\"http://www.w3.org/2000/svg\">\n  <!-- logo -->\n  <g> <rect/> </g>\n</svg>\n",
     "<svg><g/></svg>",
     "  <svg> <!--a--><!--b--> text <a> </a>\n</svg>"}

SinglePictures ==
    {File("f", t, TRUE, TRUE, "", w, h, p, <<>>) :
        t \in {PNG}, w \in 1..MaxFileDim, h \in 1..MaxFileDim, p \in Palette}

PatternPictures ==
    {File("f", PNG, TRUE, TRUE, "", 2, 2, TransparentBlack, Checker(2, 2)),
     File("f", GIF, TRUE, TRUE, "", 3, 3, TransparentBlack, Stripes(3, 3))}

SvgFiles ==
    {File("f", SVG, TRUE, d, text, 2, 2, OpaqueRed, <<>>) : d \in BOOLEAN, text \in SvgTexts}

BrokenFiles ==
    {File("f", JPEG, TRUE, FALSE, "", 0, 0, TransparentBlack, <<>>),
     File("f", PNG, FALSE, FALSE, "", 0, 0, TransparentBlack, <<>>),
     File("f", SVG, FALSE, FALSE, "", 0, 0, TransparentBlack, <<>>)}

\* Pictures around the tracing cutoffs, as <<width, height, scale2, colour>>.  The
\* ones that can be traced are transparent, which keeps their traces short.
LargeCalls ==
    {<<61, 2459, 2, TransparentBlack>>, <<244, 2459, 1, TransparentBlack>>,
     <<500, 300, 2, TransparentBlack>>, <<1000, 600, 1, TransparentBlack>>,
     <<250, 150, 4, TransparentBlack>>, <<369, 542, 2, TransparentBlack>>,
     <<500, 400, 2, TransparentBlack>>, <<1000, 1000, 2, OpaqueRed>>,
     <<1000, 1000, 1, OpaqueRed>>}

Args(file, targetFormat, quality, scale2) ==
    [phase |-> "args", outcome |-> "none", file |-> file, targetFormat |-> targetFormat,
     quality |-> quality, scale2 |-> scale2]

ConvertCalls ==
    {Args(f, t, q, sc) : f \in SinglePictures \cup SvgFiles \cup BrokenFiles,
                         t \in ImageFormat, q \in Qualities, sc \in Scales2}
    \cup {Args(f, t, q, 2) : f \in PatternPictures, t \in ImageFormat, q \in Qualities}
    \cup {Args(File("f", PNG, TRUE, TRUE, "", c[1], c[2], c[4], <<>>), t, 80, c[3]) :
             c \in LargeCalls, t \in {SVG, JPEG}}

ConvertInit ==
    /\ conv \in ConvertCalls
    /\ service \in Variants
    /\ encoders \in Browsers
    /\ trace = NoTrace
    /\ mini = NoMini
    /\ AppIdle

ConvertImageCalled ==
    /\ conv.phase = "args"
    /\ conv' = convertImage(1, conv.file, conv.targetFormat, conv.quality, conv.scale2, service)
    /\ UNCHANGED <<trace, mini, appVars>>

ConvertNext == ConvertImageCalled \/ PlatformEvent

SpecConvert == ConvertInit /\ [][ConvertNext]_vars

(***************************************************************************)
(* App: the queue and its handlers.                                        *)
(***************************************************************************)
\* The files a user drops: a picture, a picture that does not decode, a file
\* that cannot be read, an SVG document.
UploadFiles ==
    {File("a.png", PNG, TRUE, TRUE, "", 1, 1, OpaqueRed, <<>>),
     File("a.jpg", JPEG, TRUE, FALSE, "", 0, 0, TransparentBlack, <<>>),
     File("b.png", PNG, FALSE, FALSE, "", 0, 0, TransparentBlack, <<>>),
     File("a.svg", SVG, TRUE, TRUE, "<svg> <g/> </svg>", 1, 1, OpaqueRed, <<>>)}

\* One element of newImages in handleFilesSelected.
ImageFile(id, file) ==
    [id |-> id, file |-> file, previewUrl |-> <<"preview", id>>, format |-> file.type,
     status |-> "idle", resultUrl |-> NoUrl, resultSize |-> 0, error |-> ""]

handleFilesSelected(file) ==
    /\ uploads < MaxUploads
    /\ images' = Append(images, ImageFile(uploads + 1, file))
    /\ uploads' = uploads + 1
    /\ UNCHANGED <<trace, mini, conv, service, encoders, mode, settings, isProcessing, run, revoked, runs, changes, log, store, zipVars>>

\* URL.revokeObjectURL: the store forgets the URL.
Revoke(urls, gone) == [u \in DOMAIN urls \ gone |-> urls[u]]

\* A removal that leaves the result URL alone.
PreviewUrlOf(img) == {img.previewUrl}

UrlsOf(img) == {img.previewUrl} \cup (IF img.resultUrl # NoUrl THEN {img.resultUrl} ELSE {})

removeImage(id) ==
    /\ \E k \in 1..Len(images) : images[k].id = id
    /\ revoked' = revoked \cup UNION {UrlsOf(images[k]) : k \in {n \in 1..Len(images) : images[n].id = id}}
    /\ images' = SelectSeq(images, LAMBDA img : img.id # id)
    /\ store' = Revoke(store, revoked')
    /\ UNCHANGED <<trace, mini, conv, service, encoders, mode, settings, isProcessing, run, uploads,
                   runs, changes, log, zipVars>>

clearAll ==
    /\ Len(images) > 0
    /\ revoked' = revoked \cup UNION {UrlsOf(images[k]) : k \in 1..Len(images)}
    /\ images' = <<>>
    /\ store' = Revoke(store, revoked')
    /\ UNCHANGED <<trace, mini, conv, service, encoders, mode, settings, isProcessing, run, uploads,
                   runs, changes, log, zipVars>>

\* The effect on [mode]: after a render in which mode has changed.
ModeDefaultsResetScale(s, m) ==
    IF m = "compress" THEN [targetFormat |-> "original", quality |-> 60, scale2 |-> 2]
                      ELSE [targetFormat |-> WEBP, quality |-> 80, scale2 |-> 2]

ModeDefaults(s, m) ==
    IF m = "compress" THEN [s EXCEPT !.targetFormat = "original", !.quality = 60]
                      ELSE [s EXCEPT !.targetFormat = WEBP, !.quality = 80]

\* A click on one of the two mode buttons, and the effect that follows it.
setMode(m) ==
    /\ m # mode
    /\ mode' = m
    /\ settings' = ModeDefaults(settings, m)
    /\ UNCHANGED <<trace, mini, conv, service, encoders, images, isProcessing, run, revoked, uploads, runs, changes, log, store, zipVars>>

\* The settings panel: the format buttons of convert mode, the two strategy
\* buttons of compress mode, the quality slider and the scale slider.
\* The buttons and stops used here; a click that sets what is set already
\* changes nothing.
FormatButtons == {SVG}

QualityStops == {60}

ScaleStops2 == {1}

Changed(s) ==
    /\ changes < MaxChanges
    /\ s # settings
    /\ changes' = changes + 1
    /\ settings' = s
    /\ UNCHANGED <<trace, mini, conv, service, encoders, images, mode, isProcessing, run,
                   revoked, uploads, runs, log, store, zipVars>>

setTargetFormat(value) ==
    /\ mode = "convert"
    /\ Changed([settings EXCEPT !.targetFormat = value])

\* The strategy button that puts back what the mode has set: it undoes a
\* change of the panel and is not counted as one.
setStrategyOriginal ==
    /\ mode = "compress"
    /\ settings # [settings EXCEPT !.targetFormat = "original", !.quality = 60]
    /\ settings' = [settings EXCEPT !.targetFormat = "original", !.quality = 60]
    /\ UNCHANGED <<trace, mini, conv, service, encoders, images, mode, isProcessing, run,
                   revoked, uploads, runs, changes, log, store, zipVars>>

setStrategyWeb ==
    /\ mode = "compress"
    /\ Changed([settings EXCEPT !.targetFormat = WEBP, !.quality = 75])

setQuality(quality) == Changed([settings EXCEPT !.quality = quality])

setScale(scale2) == Changed([settings EXCEPT !.scale2 = scale2])

(***************************************************************************)
(* processImages.  The function runs to its first await when the button is *)
(* clicked, and from one await to the next when the awaited promise has    *)
(* settled; images and settings are the values of the render it was        *)
(* created in, and every setImages updater works on the queue of the       *)
(* moment.                                                                 *)
(***************************************************************************)
\* prev.map((img, idx) => idx === i ? {...img, ...change} : img), i from 1.
\* The three updaters of the loop, each addressing the entry by index.
MarkProcessing(prev, i) ==
    [idx \in 1..Len(prev) |-> IF idx = i THEN [prev[idx] EXCEPT !.status = "processing"]
                                         ELSE prev[idx]]

MarkCompleted(prev, i, url, size) ==
    [idx \in 1..Len(prev) |->
        IF idx = i THEN [prev[idx] EXCEPT !.status = "completed", !.resultUrl = url,
                                          !.resultSize = size]
                   ELSE prev[idx]]

MarkError(prev, i, message) ==
    [idx \in 1..Len(prev) |->
        IF idx = i THEN [prev[idx] EXCEPT !.status = "error", !.error = message]
                   ELSE prev[idx]]

\* The index the loop stops at next, from index `from` on: the first entry of
\* updatedImages that is not completed, 0 when the loop runs out.
NextIndexAll(updatedImages, from) == IF from <= Len(updatedImages) THEN from ELSE 0

NextIndex(updatedImages, from) ==
    LET todo == {j \in from..Len(updatedImages) : updatedImages[j].status # "completed"}
    IN  IF todo = {} THEN 0 ELSE Min(todo)

TargetFormatOfSelected(captured, img) == captured.targetFormat

TargetFormatOf(captured, img) ==
    IF captured.targetFormat = "original" THEN img.format ELSE captured.targetFormat

\* The loop from index `from` up to its next await, or to its end, with prev
\* the queue at that moment.
LoopFrom(prev, updatedImages, captured, from, runNo) ==
    LET i == NextIndex(updatedImages, from)
    IN  IF i = 0
        THEN /\ images' = prev
             /\ isProcessing' = FALSE
             /\ run' = NoRun
             /\ conv' = NoCall
        ELSE /\ images' = MarkProcessing(prev, i)
             /\ isProcessing' = TRUE
             /\ run' = [pc |-> "await", i |-> i, updatedImages |-> updatedImages,
                        settings |-> captured, no |-> runNo]
             /\ conv' = convertImage(<<runNo, i>>, updatedImages[i].file,
                                     TargetFormatOf(captured, updatedImages[i]),
                                     captured.quality, captured.scale2, service)

\* The record of the calls of convertImage a run has made: the arguments of
\* each call, the index it was made for, whether the call before it was still
\* pending when it was made, and whether the panel had changed since the run began.
CallsAfter(calls, nextRun, nextConv, lastConv) ==
    IF nextRun.pc = "await"
    THEN Append(calls, [i |-> nextRun.i, file |-> nextConv.file,
                        targetFormat |-> nextConv.targetFormat, quality |-> nextConv.quality,
                        scale2 |-> nextConv.scale2, overlaps |-> lastConv.outcome = "pending",
                        changed |-> settings # nextRun.settings])
    ELSE calls

\* A run button that is never disabled.
processImagesUnguarded ==
    /\ Len(images) > 0
    /\ runs < MaxRuns
    /\ runs' = runs + 1
    /\ LoopFrom(images, images, settings, 1, runs + 1)
    /\ log' = [no |-> runs + 1, settings |-> settings, images |-> images,
               calls |-> CallsAfter(<<>>, run', conv', conv)]
    /\ UNCHANGED <<trace, mini, service, encoders, mode, settings, revoked, uploads, changes, store, zipVars>>

\* The click on the run button, which is disabled while isProcessing.
processImages ==
    /\ ~isProcessing
    /\ Len(images) > 0
    /\ runs < MaxRuns
    /\ runs' = runs + 1
    /\ LoopFrom(images, images, settings, 1, runs + 1)
    /\ log' = [no |-> runs + 1, settings |-> settings, images |-> images,
               calls |-> CallsAfter(<<>>, run', conv', conv)]
    /\ UNCHANGED <<trace, mini, service, encoders, mode, settings, revoked, uploads, changes, store, zipVars>>

\* URL.createObjectURL(blob) of a call that has resolved: the store holds the
\* blob under the URL from then on.  The URL is of use to the application
\* from the moment the awaiting loop has it.
Registered(urls, c) ==
    IF c.outcome = "resolved"
    THEN [u \in DOMAIN urls \cup {c.url} |-> IF u = c.url THEN c.blob ELSE urls[u]]
    ELSE urls

\* A continuation that reads the settings of the panel.
processImagesResumedLive ==
    /\ run.pc = "await"
    /\ conv.outcome \in {"resolved", "rejected"}
    /\ LET prev == IF conv.outcome = "resolved"
                   THEN MarkCompleted(images, run.i, conv.url, conv.blob.size)
                   ELSE MarkError(images, run.i, conv.error)
       IN  LoopFrom(prev, run.updatedImages, settings, run.i + 1, run.no)
    /\ log' = [log EXCEPT !.calls = CallsAfter(@, run', conv', conv)]
    /\ store' = Registered(store, conv)
    /\ UNCHANGED <<trace, mini, service, encoders, mode, settings, revoked, uploads, runs, changes,
                   zipVars>>

\* The continuation of `await convertImage(...)`: the try block's setImages or
\* the catch block's, and the loop up to the next await.
processImagesResumed ==
    /\ run.pc = "await"
    /\ conv.outcome \in {"resolved", "rejected"}
    /\ LET prev == IF conv.outcome = "resolved"
                   THEN MarkCompleted(images, run.i, conv.url, conv.blob.size)
                   ELSE MarkError(images, run.i, conv.error)
       IN  LoopFrom(prev, run.updatedImages, run.settings, run.i + 1, run.no)
    /\ log' = [log EXCEPT !.calls = CallsAfter(@, run', conv', conv)]
    /\ store' = Registered(store, conv)
    /\ UNCHANGED <<trace, mini, service, encoders, mode, settings, revoked, uploads, runs, changes,
                   zipVars>>

(***************************************************************************)
(* downloadAsZip.                                                          *)
(***************************************************************************)

\* The last position of the character ch in s, 0 when there is none.
LastIndexOf(s, ch) ==
    LET RECURSIVE At(_)
        At(p) == IF p = 0 THEN 0
                 ELSE IF SubSeq(s, p, p) = ch THEN p
                 ELSE At(p - 1)
    IN At(Len(s))

\* blob.type.split('/')[1].split('+')[0], and 'jpeg' written 'jpg'.
Ext(type) ==
    LET slash == IndexOf(type, "/", 1)
        after == IndexOf(type, "/", slash + 1)
        second == SubSeq(type, slash + 1, IF after = 0 THEN Len(type) ELSE after - 1)
        plus == IndexOf(second, "+", 1)
        ext == IF plus = 0 THEN second ELSE SubSeq(second, 1, plus - 1)
    IN IF ext = "jpeg" THEN "jpg" ELSE ext

\* img.file.name.split('.').slice(0, -1).join('.'): the name up to its last
\* dot, and the empty string for a name without a dot.
BaseName(name) ==
    LET dot == LastIndexOf(name, ".")
    IN IF dot = 0 THEN "" ELSE SubSeq(name, 1, dot - 1)

\* The name of the archive entry of one queue entry.
EntryName(img, blob) == BaseName(img.file.name) \o "." \o Ext(blob.type)

CompletedImages(imgs) ==
    SelectSeq(imgs, LAMBDA img : img.status = "completed" /\ img.resultUrl # NoUrl)

\* const hasCompleted = images.some(img => img.status === 'completed')
hasCompleted == \E k \in 1..Len(images) : images[k].status = "completed"

\* The calls zip.file(name, blob) of one invocation: one for every completed
\* entry, in the order in which the fetches come back.  A call with a name
\* the archive has already replaces the entry of that name, so the archive
\* has one entry for each name, and under a name given twice the blob of
\* any of the entries of that name.
ZipFiles(completedImages, blobs) ==
    LET name(k) == EntryName(completedImages[k], blobs[k])
        names == {name(k) : k \in 1..Len(completedImages)}
    IN {files \in [names -> 1..Len(completedImages)] : \A n \in names : name(files[n]) = n}

\* The click on the ZIP button.  The button is rendered when hasCompleted
\* and disabled while isZipping.  The handler takes the completed entries
\* of the queue it sees and starts a fetch of each result URL; a fetch of a
\* URL the store does not have is rejected.
downloadAsZip ==
    /\ hasCompleted
    /\ ~isZipping
    /\ LET completedImages == CompletedImages(images)
       IN IF Len(completedImages) = 0
          THEN UNCHANGED zipVars
          ELSE /\ isZipping' = TRUE
               /\ zip' = [pc |-> "fetching", images |-> images,
                          completedImages |-> completedImages,
                          rejected |-> \E k \in 1..Len(completedImages) :
                                          completedImages[k].resultUrl \notin DOMAIN store,
                          blobs |-> [k \in 1..Len(completedImages) |->
                                        IF completedImages[k].resultUrl \in DOMAIN store
                                        THEN store[completedImages[k].resultUrl]
                                        ELSE NoBlob]]
    /\ UNCHANGED <<trace, mini, conv, service, encoders, images, mode, settings, isProcessing, run,
                   revoked, uploads, runs, changes, log, store>>

\* await Promise.all(promises), zip.generateAsync and link.click(): the
\* archive is handed to the browser.  The catch block when a fetch was
\* rejected.
downloadAsZipGenerated ==
    /\ zip.pc = "fetching"
    /\ IF zip.rejected
       THEN zip' = [zip EXCEPT !.pc = "alert"]
       ELSE \E files \in ZipFiles(zip.completedImages, zip.blobs) :
                zip' = [pc |-> "downloaded", images |-> zip.images,
                        completedImages |-> zip.completedImages, rejected |-> FALSE,
                        blobs |-> zip.blobs, files |-> files]
    /\ UNCHANGED <<trace, mini, conv, service, encoders, images, mode, settings, isProcessing, run,
                   revoked, uploads, runs, changes, log, store, isZipping>>

\* finally { setIsZipping(false) }
downloadAsZipFinally ==
    /\ zip.pc \in {"downloaded", "alert"}
    /\ isZipping' = FALSE
    /\ zip' = NoZip
    /\ UNCHANGED <<trace, mini, conv, service, encoders, images, mode, settings, isProcessing, run,
                   revoked, uploads, runs, changes, log, store>>

\* The application is built with one copy of the service and runs in one
\* browser: each copy and each browser is taken once.
Installations ==
    {[service |-> "part_001", encoders |-> {PNG, JPEG, WEBP}],
     [service |-> "part_000", encoders |-> {PNG, JPEG}]}

AppInit ==
    /\ trace = NoTrace
    /\ mini = NoMini
    /\ conv = NoCall
    /\ \E inst \in Installations : service = inst.service /\ encoders = inst.encoders
    /\ AppIdle

Next ==
    \/ \E file \in UploadFiles : handleFilesSelected(file)
    \/ \E k \in 1..Len(images) : removeImage(images[k].id)
    \/ clearAll
    \/ \E m \in {"convert", "compress"} : setMode(m)
    \/ \E value \in FormatButtons : setTargetFormat(value)
    \/ setStrategyOriginal
    \/ setStrategyWeb
    \/ \E quality \in QualityStops : setQuality(quality)
    \/ \E scale2 \in ScaleStops2 : setScale(scale2)
    \/ processImages
    \/ processImagesResumed
    \/ PlatformEvent

Spec == AppInit /\ [][Next]_vars

\* The application with its ZIP button, the settings left as the mode sets
\* them.  downloadAsZip reads the queue and the blob URL store and writes
\* isZipping and its own position only, which no other handler reads: the
\* batch runs are the same with and without it.
NextZip ==
    \/ \E file \in UploadFiles : handleFilesSelected(file)
    \/ \E k \in 1..Len(images) : removeImage(images[k].id)
    \/ clearAll
    \/ \E m \in {"convert", "compress"} : setMode(m)
    \/ processImages
    \/ processImagesResumed
    \/ PlatformEvent
    \/ downloadAsZip
    \/ downloadAsZipGenerated
    \/ downloadAsZipFinally

SpecZip == AppInit /\ [][NextZip]_vars

(***************************************************************************)
(* Claims about convertImage, checked under SpecConvert.                   *)
(***************************************************************************)
Called == conv.phase \notin {"none", "args"}

\* Four times the scaled area, from the arguments of the call alone.
ScaledArea4 == (conv.file.width * conv.scale2) * (conv.file.height * conv.scale2)

\* C4: for an SVG target and a non-SVG input the tracing strategy is selected
\* if and only if the scaled area is strictly below the cutoff of the copy
\* (150000 or 200000), the embedding strategy otherwise, also at an area
\* exactly equal to the cutoff; nothing but the scaled area decides.
C4_TracingIffAreaBelowCutoff ==
    (Called /\ conv.targetFormat = SVG /\ conv.file.type # SVG) =>
        /\ conv.strategy \in {"none", "trace", "embed"}
        /\ (conv.canvases = 1 /\ conv.outcome # "rejected") => conv.strategy # "none"
        /\ conv.strategy = "trace" =>
              ScaledArea4 < 4 * (IF service = "part_001" THEN 150000 ELSE 200000)
        /\ conv.strategy = "embed" =>
              ScaledArea4 >= 4 * (IF service = "part_001" THEN 150000 ELSE 200000)

\* A call whose scaled area is exactly the cutoff and which embedded.
C4_Witness ==
    /\ Called /\ conv.targetFormat = SVG /\ conv.file.type # SVG
    /\ conv.outcome = "resolved" /\ conv.strategy = "embed"
    /\ ScaledArea4 = 4 * TraceCutoff(service)
    /\ conv.scale2 # 2

StartsWith(s, prefix) == Len(s) >= Len(prefix) /\ SubSeq(s, 1, Len(prefix)) = prefix

\* The root element's tag, and what stands between <g ...> and </g>.
RootTag(text) == SubSeq(text, 1, IndexOf(text, ">", 1))

GroupInner(text) ==
    LET open == IndexOf(text, "<g", 1)
        inner == IndexOf(text, ">", open) + 1
    IN  SubSeq(text, inner, IndexOf(text, "</g>", inner) - 1)

OnlyRects(inner) ==
    /\ Occurrences(inner, "<") = Occurrences(inner, "<rect ")
    /\ Occurrences(inner, ">") = Occurrences(inner, " />")
    /\ Occurrences(inner, "<") = Occurrences(inner, ">")

\* C5: a payload resolved for an SVG target and a non-SVG input begins with an
\* <svg> root element that declares the SVG namespace and has width and height
\* attributes, and holds either one <g> element of rectangles only and no
\* <image>, or one <image> element and no rectangle; the latter whenever the
\* embedding strategy was selected.
C5_SvgPayloadShape ==
    (Called /\ conv.outcome = "resolved" /\ conv.targetFormat = SVG /\ conv.file.type # SVG) =>
        LET text == conv.blob.text
            traced == /\ Occurrences(text, "<g") = 1 /\ Occurrences(text, "</g>") = 1
                      /\ Occurrences(text, "<image") = 0
                      /\ OnlyRects(GroupInner(text))
                      /\ Occurrences(text, "<rect") = Occurrences(GroupInner(text), "<rect")
            embedded == /\ Occurrences(text, "<image") = 1
                        /\ Occurrences(text, "<g") = 0
                        /\ Occurrences(text, "<rect") = 0
        IN  /\ conv.blob.type = SVG
            /\ StartsWith(text, "<svg ")
            /\ Occurrences(RootTag(text), " xmlns=\"http://www.w3.org/2000/svg\"") = 1
            /\ Occurrences(RootTag(text), " width=\"") = 1
            /\ Occurrences(RootTag(text), " height=\"") = 1
            /\ traced \/ embedded
            /\ conv.strategy = "embed" => embedded

\* Scenario C: a 1000x1000 opaque picture resolved as one embedded image.
C5_Witness ==
    /\ Called /\ conv.outcome = "resolved" /\ conv.targetFormat = SVG
    /\ conv.file.width = 1000 /\ conv.file.height = 1000 /\ conv.scale2 = 2
    /\ conv.file.base = OpaqueRed
    /\ conv.strategy = "embed"
    /\ Occurrences(conv.blob.text, "<image") = 1
    /\ Occurrences(conv.blob.text, "<rect") = 0

\* C6: with an SVG file and the SVG target, convertImage creates no image
\* element and no canvas, never traces and never encodes; it reads the file as
\* text and what it resolves with is a blob of type image/svg+xml holding
\* minifySvg of that text, whatever the quality and the scale.
C6_SvgPassThrough ==
    (Called /\ conv.file.type = SVG /\ conv.targetFormat = SVG) =>
        /\ conv.elements = 0 /\ conv.canvases = 0 /\ conv.traces = 0 /\ conv.encodes = 0
        /\ conv.readers = 1
        /\ conv.phase \in {"readAsText", "settled", "stalled"}
        /\ conv.outcome # "rejected"
        /\ conv.outcome = "resolved" =>
              /\ conv.file.readable
              /\ conv.blob.type = SVG
              /\ conv.blob.text = minifySvg(conv.file.text)
              /\ \A other \in SvgFiles :
                    other.text = conv.file.text => conv.blob.text = minifySvg(other.text)

\* A document with comments and gaps, passed through at half scale.
C6_Witness ==
    /\ Called /\ conv.file.type = SVG /\ conv.targetFormat = SVG
    /\ conv.scale2 = 1 /\ conv.quality = 60
    /\ conv.outcome = "resolved"
    /\ conv.file.text = "  <svg> <!--a--><!--b--> text <a> </a>\n</svg>"
    /\ conv.blob.text = "<svg>  text <a></a></svg>"

\* C8: a call that rejects has created no blob and no object URL, has not
\* called resolve, and has read, decoded and encoded at most once; resolve and
\* reject together are called at most once per call.
C8_RejectionIsFinalAndEmpty ==
    Called =>
        /\ conv.resolveCalls + conv.rejectCalls <= 1
        /\ conv.outcome = "rejected" =>
              /\ conv.rejectCalls = 1 /\ conv.resolveCalls = 0
              /\ conv.blobs = 0 /\ conv.urls = 0
              /\ conv.blob = NoBlob /\ conv.url = NoUrl
              /\ conv.readers = 1 /\ conv.elements = 1 /\ conv.canvases = 1
              /\ conv.traces = 0 /\ conv.encodes <= 1
              /\ conv.phase = "settled"
              /\ conv.error \in IF service = "part_001"
                               THEN {"Canvas context failure", "Blob generation failed"}
                               ELSE {"Canvas context failed", "Export failed"}

\* A call rejected because toBlob delivered null.
C8_Witness ==
    /\ Called /\ conv.outcome = "rejected"
    /\ service = "part_001" /\ conv.error = "Blob generation failed"
    /\ conv.canvas.w * conv.canvas.h > 0

\* C12: for a target format other than SVG, convertImage never traces and
\* never builds an SVG envelope; the surface gets an opaque white backdrop
\* before the source is drawn if and only if the target is JPEG; and toBlob is
\* asked for the given target format at the given quality.
C12_RasterTargetsEncodeOnly ==
    (Called /\ conv.targetFormat # SVG) =>
        /\ conv.traces = 0
        /\ conv.strategy \in {"none", "raster"}
        /\ conv.svgContent = ""
        /\ conv.strategy = "raster" =>
              /\ conv.backdrop <=> conv.targetFormat = JPEG
              /\ conv.targetFormat = JPEG =>
                    /\ conv.canvas.base.a = 255
                    /\ conv.file.base.a = 0 => conv.canvas.base = Pixel(255, 255, 255, 255)
                    /\ \A k \in DOMAIN conv.canvas.px : conv.canvas.px[k].a = 255
              /\ conv.targetFormat # JPEG =>
                    /\ conv.canvas.base = conv.file.base
                    /\ \A k \in DOMAIN conv.canvas.px : conv.canvas.px[k] = conv.file.px[k]
              /\ conv.encodes = 1
              /\ conv.request = [type |-> conv.targetFormat, quality |-> conv.quality]
        /\ conv.outcome = "resolved" =>
              /\ conv.blob.kind = "raster"
              /\ conv.blob.quality = conv.quality
              /\ conv.blob.type \in {conv.targetFormat, PNG}
              /\ conv.blob.w = conv.canvas.w /\ conv.blob.h = conv.canvas.h

\* A transparent picture encoded as JPEG from a white surface.
C12_Witness ==
    /\ Called /\ conv.outcome = "resolved"
    /\ conv.file.base = TransparentBlack
    /\ conv.targetFormat = JPEG /\ conv.canvas.base = Pixel(255, 255, 255, 255)
    /\ conv.blob.type = JPEG /\ conv.quality = 60 /\ conv.blob.quality = 60

\* The whitespace of s that stands between a ">" and the next "<", or at
\* either end of s.
RECURSIVE RunStart(_, _)
RunStart(s, j) == IF j = 1 \/ ~IsSpace(CharAt(s, j - 1)) THEN j ELSE RunStart(s, j - 1)

RECURSIVE RunEnd(_, _)
RunEnd(s, j) == IF j = Len(s) \/ ~IsSpace(CharAt(s, j + 1)) THEN j ELSE RunEnd(s, j + 1)

GapSpaces(s) ==
    {j \in 1..Len(s) :
        /\ IsSpace(CharAt(s, j))
        /\ LET lo == RunStart(s, j)
               hi == RunEnd(s, j)
           IN  \/ lo = 1
               \/ hi = Len(s)
               \/ CharAt(s, lo - 1) = ">" /\ CharAt(s, hi + 1) = "<"}

\* s[lo..hi] without the characters at the indices in drop.
RECURSIVE Without(_, _, _, _)
Without(s, drop, lo, hi) ==
    IF lo > hi THEN ""
    ELSE IF lo = hi THEN (IF lo \in drop THEN "" ELSE CharAt(s, lo))
    ELSE LET mid == (lo + hi) \div 2
         IN  Without(s, drop, lo, mid) \o Without(s, drop, mid + 1, hi)

\* C13: in the tracing and in the embedding strategy the resolved blob holds
\* the envelope put through minifySvg: no comment, no whitespace between a
\* ">" and the next "<", none at either end, and otherwise every character of
\* the envelope in its order.
C13_SvgBlobIsMinifiedEnvelope ==
    (Called /\ conv.outcome = "resolved" /\ conv.strategy \in {"trace", "embed"}) =>
        LET text == conv.blob.text
            envelope == conv.svgContent
        IN  /\ Len(envelope) > 0
            /\ Occurrences(text, "<!--") = 0
            /\ GapSpaces(text) = {}
            /\ Occurrences(envelope, "<!--") = 0
            /\ text = Without(envelope, GapSpaces(envelope), 1, Len(envelope))
            /\ conv.blob.size = Len(text)

\* An envelope of the copy whose template is laid out over several lines,
\* resolved without that layout, in each strategy.
C13_Witness ==
    /\ Called /\ conv.outcome = "resolved" /\ conv.strategy = "trace"
    /\ service = "part_000"
    /\ Cardinality(GapSpaces(conv.svgContent)) = 47
    /\ Occurrences(conv.blob.text, "<rect") = 4
    /\ Len(conv.blob.text) = Len(conv.svgContent) - 47

\* C15: the width and height attributes of the envelope (and the viewBox of
\* the tracing strategy) are the picture's width and height times the scale,
\* and these are the dimensions of the surface that was drawn on and sampled.
C15_EnvelopeDimsAreSurfaceDims ==
    (Called /\ conv.outcome = "resolved" /\ conv.strategy \in {"trace", "embed"}) =>
        LET width2 == conv.file.width * conv.scale2
            height2 == conv.file.height * conv.scale2
            root == RootTag(Trim(conv.svgContent))
        IN  /\ Occurrences(root, " width=\"" \o NumStr(width2) \o "\"") = 1
            /\ Occurrences(root, " height=\"" \o NumStr(height2) \o "\"") = 1
            /\ conv.strategy = "trace" =>
                  Occurrences(root, " viewBox=\"0 0 " \o NumStr(width2) \o " "
                                      \o NumStr(height2) \o "\"") = 1
            /\ 2 * conv.canvas.w = width2
            /\ 2 * conv.canvas.h = height2

(***************************************************************************)
(* Claims about the batch run, checked under Spec.                         *)
(***************************************************************************)
\* C9: when the input of an item cannot be read or decoded, convertImage
\* rejects, so that processImages marks the item 'error' and goes on.
C9_InputFailureRejects ==
    (run.pc = "await" /\ conv.inputFailed) => conv.outcome = "rejected"

\* The step in which processImages takes up a rejection.
RejectionTaken == run.pc = "await" /\ conv.outcome = "rejected" /\ conv' # conv

\* C10: when the conversion of the item at position i rejects, that item and
\* no other gets status 'error' with the rejection's message, the status and
\* result of every other entry stay as they are, and the loop goes on to the
\* next item of the run that is not completed.
C10_RejectionMarksThatItemOnly ==
    [][RejectionTaken =>
         LET failed == run.updatedImages[run.i].id
             j == NextIndex(run.updatedImages, run.i + 1)
             next == IF j = 0 THEN 0 ELSE run.updatedImages[j].id
         IN  /\ Len(images') = Len(images)
             /\ \A k \in 1..Len(images) :
                   /\ images'[k].id = images[k].id
                   /\ images[k].id = failed =>
                         images'[k].status = "error" /\ images'[k].error = conv.error
                   /\ images[k].id \notin {failed, next} =>
                         images'[k].status = images[k].status
                   /\ images[k].id # failed =>
                         /\ images'[k].status \in {images[k].status, "processing"}
                         /\ images'[k].resultUrl = images[k].resultUrl
                         /\ images'[k].resultSize = images[k].resultSize
             /\ j # 0 => /\ run'.pc = "await" /\ run'.i = j
                         /\ conv'.file = run.updatedImages[j].file
                         /\ conv'.outcome = "pending"
             /\ j = 0 => run' = NoRun /\ ~isProcessing'
    ]_vars

\* The calls the last run has made for index k of the queue it started from.
CallsFor(k) == {n \in 1..Len(log.calls) : log.calls[n].i = k}

\* C11: at most one convertImage call of the application is pending: a run
\* makes a call only when the call before it has settled, the calls of a run
\* go up the queue the run started from, and while isProcessing is true no
\* further run can be started.
C11_OneConversionAtATime ==
    /\ log # NoLog =>
          \A n \in 1..Len(log.calls) :
              /\ ~log.calls[n].overlaps
              /\ n > 1 => log.calls[n - 1].i < log.calls[n].i
    /\ conv.outcome = "pending" => isProcessing /\ run.pc = "await"
    /\ run.pc = "await" => isProcessing /\ log.no = runs /\ run.no = runs
    /\ isProcessing => ~ENABLED processImages

\* A run that has made its second call, after the first has settled.
C11_Witness ==
    /\ log # NoLog /\ Len(log.calls) = 2
    /\ log.calls[1].i = 1 /\ log.calls[2].i = 2
    /\ conv.outcome = "pending" /\ conv.file = log.images[2].file
    /\ isProcessing

\* C16: every call of a run is made with the quality and the scale in effect
\* when the run was started and with the target format that follows from the
\* target-format setting of that moment, whatever has been changed in the
\* panel or in the mode since.
C16_RunUsesSettingsOfItsStart ==
    log # NoLog =>
        \A n \in 1..Len(log.calls) :
            /\ log.calls[n].quality = log.settings.quality
            /\ log.calls[n].scale2 = log.settings.scale2
            /\ log.calls[n].targetFormat \in
                  {log.settings.targetFormat, log.images[log.calls[n].i].format} \ {"original"}
            /\ log.settings.targetFormat # "original" =>
                  log.calls[n].targetFormat = log.calls[1].targetFormat

\* A second call made after the quality, the target format and the mode have
\* changed since the start of the run.
C16_Witness ==
    /\ log # NoLog /\ Len(log.calls) = 2
    /\ log.calls[2].changed
    /\ settings.quality # log.settings.quality
    /\ settings.targetFormat # log.settings.targetFormat
    /\ log.calls[2].quality = log.calls[1].quality
    /\ conv.targetFormat = log.calls[1].targetFormat

\* C17: an entry that is 'completed' when a run starts is not converted in
\* that run, whatever the settings are by then; an entry that is 'idle' or
\* 'error' at that moment has convertImage called on its file never more than
\* once, and once when the run has come to its end.
C17_CompletedSkippedOthersOnce ==
    log # NoLog =>
        \A k \in 1..Len(log.images) :
            /\ Cardinality(CallsFor(k)) <= 1
            /\ \A n \in CallsFor(k) : log.calls[n].file = log.images[k].file
            /\ log.images[k].status = "completed" => CallsFor(k) = {}
            /\ (run = NoRun /\ log.images[k].status \in {"idle", "error"})
                  => Cardinality(CallsFor(k)) = 1

\* A second run, ended, that started with the scale changed, from an entry
\* completed in the first run and one that had failed in it.
C17_Witness ==
    /\ log.no = 2 /\ run = NoRun /\ Len(log.images) = 2
    /\ log.images[1].status = "completed" /\ log.images[1].resultUrl = <<"blob", <<1, 1>>>>
    /\ log.images[2].status = "error"
    /\ log.settings.scale2 = 1
    /\ Len(log.calls) = 1 /\ log.calls[1].i = 2

\* C18: with the setting 'original' each item is converted to the format of
\* its own file type, so that an SVG file takes the pass-through path and is
\* not rasterized; with any other setting every item is converted to the
\* format selected.
C18_OriginalKeepsOwnFormat ==
    log # NoLog =>
        /\ \A n \in 1..Len(log.calls) :
              log.calls[n].targetFormat =
                 IF log.settings.targetFormat = "original"
                 THEN log.calls[n].file.type
                 ELSE log.settings.targetFormat
        /\ (run.pc = "await" /\ log.settings.targetFormat = "original" /\ conv.file.type = SVG) =>
              /\ conv.targetFormat = SVG
              /\ conv.elements = 0 /\ conv.canvases = 0 /\ conv.encodes = 0
              /\ conv.strategy \in {"none", "passthrough"}

\* A run in compress mode in which an SVG file has gone through as text.
C18_Witness ==
    /\ run.pc = "await" /\ log.settings.targetFormat = "original"
    /\ conv.file.type = SVG /\ conv.outcome = "resolved"
    /\ conv.strategy = "passthrough" /\ conv.blob.text = "<svg><g/></svg>"
    /\ \E n \in 1..Len(log.calls) : log.calls[n].file.type = PNG /\ log.calls[n].targetFormat = PNG

\* C19: a change of mode sets targetFormat 'original' and quality 0.6 for
\* compress, WebP and 0.8 for convert, and leaves the scale, the queue and
\* everything else as it is.
C19_ModeSwitchSetsDefaults ==
    [][mode' # mode =>
         /\ settings' = [targetFormat |-> IF mode' = "compress" THEN "original" ELSE WEBP,
                         quality |-> IF mode' = "compress" THEN 60 ELSE 80,
                         scale2 |-> settings.scale2]
         /\ images' = images
         /\ UNCHANGED <<conv, isProcessing, run, revoked, log>>
    ]_vars

\* Compress mode with its defaults, a scale set before, and a queue with a result.
C19_Witness ==
    /\ mode = "compress"
    /\ settings = [targetFormat |-> "original", quality |-> 60, scale2 |-> 1]
    /\ \E k \in 1..Len(images) : images[k].status = "completed"

(***************************************************************************)
(* Claims about traceToSvgPath, checked under SpecTrace.                   *)
(***************************************************************************)
\* The coordinates the claims call sampled: x and y multiples of the stride
\* with 0 <= x < W and 0 <= y < H.
SampledCoordinates(width2, height2) ==
    {xy \in (0..Trunc(width2)) \X (0..Trunc(height2)) :
        /\ xy[1] % step = 0 /\ xy[2] % step = 0
        /\ 2 * xy[1] < width2 /\ 2 * xy[2] < height2}

\* Whether the bitmap has a pixel at (x, y) whose alpha exceeds the threshold.
OpaqueAt(canvas, x, y) ==
    x < canvas.w /\ y < canvas.h /\ CanvasPixel(canvas, x, y).a > OpacityThreshold

RectAt(x, y) == "<rect x=\"" \o ToString(x) \o "\" y=\"" \o ToString(y) \o "\" "

\* C1: the number of <rect> primitives returned equals the number of sampled
\* coordinates of the bitmap whose alpha exceeds the threshold; a fully opaque
\* 4x4 bitmap gives 4 primitives, a fully transparent one 0.
C1_RectCountIsOpaqueSampleCount ==
    trace.pc = "returned" =>
        /\ Occurrences(trace.paths, "<rect") =
             Cardinality({xy \in SampledCoordinates(trace.width2, trace.height2) :
                             OpaqueAt(trace.ctx, xy[1], xy[2])})
        /\ (trace.ctx = Bitmap(4, 4, OpaqueRed, <<>>) /\ trace.width2 = 8 /\ trace.height2 = 8)
             => Occurrences(trace.paths, "<rect") = 4
        /\ (trace.ctx.base = TransparentBlack /\ trace.ctx.px = <<>>)
             => Occurrences(trace.paths, "<rect") = 0

\* C2: a sampled coordinate produces a primitive if and only if its alpha is
\* strictly greater than 128, and that primitive is the stride-sized rectangle
\* at the coordinate, filled with the red, green and blue of that same pixel.
C2_PrimitiveIffAlphaAboveThreshold ==
    trace.pc = "returned" =>
        \A xy \in SampledCoordinates(trace.width2, trace.height2) :
            LET p == CanvasPixel(trace.ctx, xy[1], xy[2])
            IN  /\ Occurrences(trace.paths, RectAt(xy[1], xy[2])) > 0
                     <=> OpaqueAt(trace.ctx, xy[1], xy[2])
                /\ OpaqueAt(trace.ctx, xy[1], xy[2])
                     => Occurrences(trace.paths, RectMarkup(xy[1], xy[2], p.r, p.g, p.b)) = 1

\* The places of the primitives in a returned string, and the number that
\* stands between quotes from index i on.
RectStarts(s) == {j \in 1..(Len(s) - 8) : SubSeq(s, j, j + 8) = "<rect x=\""}

QuotedNat(s, i) ==
    LET q == IndexOf(s, "\"", i)
    IN  CHOOSE n \in 0..Len(s) : ToString(n) = SubSeq(s, i, q - 1)

RectX(s, j) == QuotedNat(s, j + 9)

RectY(s, j) == QuotedNat(s, IndexOf(s, " y=\"", j) + 4)

RectSize(s, j) ==
    <<QuotedNat(s, IndexOf(s, " width=\"", j) + 8), QuotedNat(s, IndexOf(s, " height=\"", j) + 9)>>

\* C3: the primitives are in raster-scan order (smaller y first, then smaller
\* x), no two share a coordinate, and each is one stride-sized cell: equal
\* neighbours are not merged into a larger rectangle.
C3_RasterOrderNoMerge ==
    trace.pc = "returned" =>
        /\ \A j1, j2 \in RectStarts(trace.paths) :
              j1 < j2 =>
                 \/ RectY(trace.paths, j1) < RectY(trace.paths, j2)
                 \/ /\ RectY(trace.paths, j1) = RectY(trace.paths, j2)
                    /\ RectX(trace.paths, j1) < RectX(trace.paths, j2)
        /\ \A j \in RectStarts(trace.paths) : RectSize(trace.paths, j) = <<step, step>>
        /\ Cardinality(RectStarts(trace.paths)) = Occurrences(trace.paths, "fill=")

\* A returned trace with equal-coloured primitives in two rows and two columns.
C3_Witness ==
    /\ trace.pc = "returned"
    /\ trace.ctx = Bitmap(4, 4, OpaqueRed, <<>>)
    /\ {<<RectX(trace.paths, j), RectY(trace.paths, j)>> : j \in RectStarts(trace.paths)}
          = {<<0, 0>>, <<2, 0>>, <<0, 2>>, <<2, 2>>}

C7_MinifyIdempotent ==
    mini.pc = "twice" => mini.twice = mini.once

\* The queue without its entry at position k.
WithoutEntry(imgs, k) == SubSeq(imgs, 1, k - 1) \o SubSeq(imgs, k + 1, Len(imgs))

\* C21: a step that takes entries off the queue either takes off one entry,
\* keeps the others in their order as they are and revokes the preview URL
\* and the result URL of that entry, or takes off all entries and revokes
\* the URLs of all of them; and after no step does an entry of the queue
\* refer to a revoked URL.
C21_RemovalRevokesOnlyTheRemoved ==
    [][/\ Len(images') < Len(images) =>
              \/ \E k \in 1..Len(images) :
                     /\ images' = WithoutEntry(images, k)
                     /\ \A n \in 1..Len(images') : images'[n].id # images[k].id
                     /\ revoked' = revoked \cup {images[k].previewUrl}
                                           \cup (IF images[k].resultUrl # NoUrl
                                                 THEN {images[k].resultUrl} ELSE {})
              \/ /\ images' = <<>>
                 /\ revoked' = revoked \cup {images[k].previewUrl : k \in 1..Len(images)}
                                       \cup {images[k].resultUrl : k \in
                                                {n \in 1..Len(images) : images[n].resultUrl # NoUrl}}
       /\ \A n \in 1..Len(images') :
              /\ images'[n].previewUrl \notin revoked'
              /\ images'[n].resultUrl \notin revoked'
    ]_vars

\* An entry with a result has been removed, and an entry with a result remains.
C21_Witness ==
    /\ \E u \in revoked : u[1] = "blob"
    /\ \E u \in revoked : u[1] = "preview"
    /\ Len(images) = 1
    /\ images[1].status = "completed"
    /\ images[1].resultUrl # NoUrl

\* The step in which processImages takes up a result.
ResolutionTaken == run.pc = "await" /\ conv.outcome = "resolved" /\ conv' # conv

\* C22: whatever was uploaded, removed or cleared while the conversion was
\* pending, its result is recorded only on an entry that holds the converted
\* file: the entry that takes the result URL holds that file and is
\* 'completed' with the size of the blob, and every other entry keeps the
\* result it has.
C22_ResultRecordedOnOwnEntry ==
    [][ResolutionTaken =>
         /\ Len(images') = Len(images)
         /\ \A k \in 1..Len(images) :
               /\ images'[k].id = images[k].id
               /\ images'[k].resultUrl = conv.url =>
                     /\ images[k].file = conv.file
                     /\ images'[k].status = "completed"
                     /\ images'[k].resultSize = conv.blob.size
               /\ images'[k].resultUrl # conv.url =>
                     /\ images'[k].resultUrl = images[k].resultUrl
                     /\ images'[k].resultSize = images[k].resultSize
    ]_vars

\* The positions of the queue whose entry has status 'processing'.
Processing == {k \in 1..Len(images) : images[k].status = "processing"}

\* C23: at most one entry of the queue is 'processing', and an entry is
\* 'processing' only while a run awaits the conversion of that entry's file.
C23_ProcessingIsThePendingCall ==
    /\ Cardinality(Processing) <= 1
    /\ \A k \in Processing :
          /\ run.pc = "await"
          /\ conv.file = images[k].file

\* C24: while isProcessing is false no entry of the queue is 'processing',
\* and every entry that was in the queue when the last run began and is
\* still in the queue is 'completed' or 'error'.
C24_NothingProcessingWhenIdle ==
    ~isProcessing =>
        /\ \A k \in 1..Len(images) : images[k].status # "processing"
        /\ log # NoLog =>
              \A k \in 1..Len(images) :
                  (\E n \in 1..Len(log.images) : log.images[n].id = images[k].id)
                      => images[k].status \in {"completed", "error"}

(***************************************************************************)
(* Claims about downloadAsZip, checked under SpecZip.                      *)
(***************************************************************************)

\* C20: downloadAsZip does nothing and leaves isZipping false when no entry
\* is completed; otherwise the archive it generates has exactly one entry
\* for each completed entry of the queue, none for the others, and
\* isZipping is false again when it has ended.
C20_ArchiveHasOneEntryPerCompleted ==
    /\ isZipping = (zip # NoZip)
    /\ isZipping => Len(zip.completedImages) > 0
    /\ zip.pc = "downloaded" =>
           LET completed == {k \in 1..Len(zip.images) : zip.images[k].status = "completed"}
           IN /\ Cardinality(DOMAIN zip.files) = Cardinality(completed)
              /\ \A n \in DOMAIN zip.files :
                     \E k \in completed : zip.completedImages[zip.files[n]] = zip.images[k]

=============================================================================
